---- MODULE Spec2Model ----
(***************************************************************************)
(* U-LANC 2.0 backend: the REST handlers of backend/app/main.py, the       *)
(* Celery tasks of backend/app/tasks.py and the CompressionEngine of       *)
(* backend/app/compression_engine.py, as one state machine.                *)
(*                                                                         *)
(* main.py and tasks.py each define a module-level dict called `tasks`.    *)
(* They are two objects: the handlers read and write main.py's, the Celery *)
(* tasks read and write tasks.py's.  The variable `tasks` maps the module  *)
(* to its dict.                                                            *)
(*                                                                         *)
(* Spec is the whole service with MaxJobs uploads, PairSpec the same with  *)
(* one upload more, SubmitSpec the upload handlers alone over a wider      *)
(* range of parameters, and EngineSpec one direct call of an engine        *)
(* function over a wide range of inputs and environments.                  *)
(***************************************************************************)
EXTENDS Integers, Sequences, FiniteSets, TLC

VARIABLES
    COMPRESSAI_AVAILABLE,  \* compression_engine.py: `import compressai` succeeded
    ENCODEC_AVAILABLE,     \* compression_engine.py: `from encodec import ...` succeeded
    image_model,  \* CompressionEngine.image_model is loaded (not None)
    audio_model,  \* CompressionEngine.audio_model is loaded (not None)
    max_jobs,     \* how many uploads the clients of this run make at most
    tasks,        \* module -> (task id -> CompressionTask)
    files,        \* storage: path -> size in bytes
    handler,      \* upload handlers between the insert and send_task
    queue,        \* broker: messages sent by send_task, not yet delivered
    worker,       \* task id -> frame of the Celery task executing it
    resp,         \* the HTTP response the last step returned, if it returned one
    call          \* the last direct call of an engine function and what it returned

\* what is fixed once the process has started
engine == <<COMPRESSAI_AVAILABLE, ENCODEC_AVAILABLE, image_model, audio_model, max_jobs>>

vars == <<engine, tasks, files, handler, queue, worker, resp, call>>

-----------------------------------------------------------------------------
(* Bounds and input sets *)

MaxJobs == 1

Ids == 1 .. max_jobs
\* ids a client may ask about: the last one is never issued
AskIds == 1 .. (max_jobs + 1)

\* a content type is <<type, subtype>>, as in "image/png"
ContentTypes == {<<"image", "png">>, <<"audio", "wav">>, <<"video", "mp4">>}

\* A file name is a sequence of tokens; a token starting with "." is a suffix.
ImageFilenames == {<<"a", ".png">>}
AudioFilenames == {<<"a", ".wav">>, <<"a", ".mp3">>}
VideoFilenames == {<<"a", ".mp4">>}

UploadSizes == {2}
ImageQualities == {80}
VideoQualities == {50}
Bitrates == {6}
AdaptiveModes == {TRUE}
CompressedSizes == {1}

\* where an engine call may fail: opening or decoding the input, region
\* detection, model inference, the external encoder, writing the output
FailPoints == {"load", "detection", "inference", "encoder", "io"}

\* a bounding box (x, y, w, h) of a detector, reduced to its size
Box(w, h) == [h |-> h, w |-> w]

\* a decoded video frame, reduced to what the detectors would find in it: the
\* faces of the face cascade and the boxes of the edge contours
VideoFrame(faces, contours) == [contours |-> contours, faces |-> faces]

\* what the environment decides in one engine call: the point that fails if
\* the call reaches it, the size of the encoded output, what the face
\* cascade and the contour finder return for the image, and for a video
\* whether the capture opens and the frames it decodes
Env(fail, csize, faces, contours, opened, frames) ==
    [ fail |-> fail, csize |-> csize, faces |-> faces, contours |-> contours,
      opened |-> opened, frames |-> frames ]

\* the engine calls made by the Celery tasks
EngineEnvs ==
    { Env(fail, csize, <<Box(60, 60)>>, <<>>, TRUE,
              <<VideoFrame(<<Box(60, 60)>>, <<>>)>>) :
          fail \in {"none", "load", "encoder"}, csize \in CompressedSizes }

\* the direct engine calls: the input file is missing, empty or two bytes
\* long, and the output is smaller or larger than the input
InputFiles == {<<>>, <<0>>, <<2>>}
OutputSizes == {1, 3}
CallQualities == 0 .. 100
ImageCallQualities == {1, 80}
BoxWidths == {10, 50, 51}
BoxHeights == {10, 20, 21}
Boxes == {Box(w, h) : w \in BoxWidths, h \in BoxHeights}
FaceLists == {<<>>} \cup {<<b>> : b \in Boxes}
ContourLists == {<<>>} \cup {<<b>> : b \in Boxes} \cup {<<b, c>> : b \in Boxes, c \in Boxes}
Fails == FailPoints \cup {"none"}

\* videos for the direct calls: up to MaxFrames frames of one kind, one of
\* them possibly of another kind
MaxFrames == 11
FrameKinds ==
    { VideoFrame(<<>>, <<>>),
      VideoFrame(<<Box(60, 60)>>, <<>>),
      VideoFrame(<<Box(10, 10), Box(60, 60)>>, <<Box(60, 60)>>) }
VideoFrameLists ==
    { [i \in 1 .. n |-> IF i = p THEN k2 ELSE k1] :
          n \in 0 .. MaxFrames, p \in 0 .. MaxFrames, k1 \in FrameKinds, k2 \in FrameKinds }
CallFrameLists ==
    { <<>>, <<VideoFrame(<<Box(60, 60)>>, <<>>)>>,
      <<VideoFrame(<<>>, <<Box(60, 60)>>), VideoFrame(<<Box(60, 60), Box(10, 10)>>, <<>>)>> }

\* the uploads of a client that does not keep to the documented ranges
SubmitQualities == {0, 1, 100, 101}

-----------------------------------------------------------------------------
(* Optional values: None is the empty sequence, Some(v) a one-element one *)

None == <<>>
Some(v) == <<v>>
IsSet(o) == o # None
Get(o) == o[1]

-----------------------------------------------------------------------------
(* models.py *)

PENDING == "pending"
PROCESSING == "processing"
COMPLETED == "completed"
FAILED == "failed"
TaskStatus == {PENDING, PROCESSING, COMPLETED, FAILED}

\* CompressionTask(...) with the defaults of the class for the fields not passed
CompressionTask(id, file_type, original_filename, original_size, file_path, quality, adaptive_mode, bitrate, status) ==
    [ id |-> id,
      file_type |-> file_type,
      original_filename |-> original_filename,
      original_size |-> original_size,
      file_path |-> file_path,
      compressed_file_path |-> None,
      compressed_size |-> None,
      compression_ratio |-> None,
      status |-> status,
      progress |-> 0,
      error_message |-> None,
      quality |-> quality,
      adaptive_mode |-> adaptive_mode,
      bitrate |-> bitrate,
      ai_analysis |-> None ]

-----------------------------------------------------------------------------
(* Paths *)

IsSuffix(tok) == tok \in {".wav", ".mp3", ".png", ".mp4"}

\* upload_dir / f"{task_id}_{file.filename}"
UploadPath(id, filename) ==
    [dir |-> "uploads", id |-> id, name |-> filename, prefix |-> ""]

\* Path.stem: the name without its last suffix
Stem(name) ==
    IF Len(name) > 0 /\ IsSuffix(name[Len(name)])
    THEN SubSeq(name, 1, Len(name) - 1)
    ELSE name

\* Path("outputs") / f"compressed_{input_path.name}"
OutputPathSameName(p) ==
    [dir |-> "outputs", id |-> p.id, name |-> p.name, prefix |-> "compressed_"]

\* Path("outputs") / f"compressed_{input_path.stem}.mp3"
OutputPathMp3(p) ==
    [dir |-> "outputs", id |-> p.id, name |-> Append(Stem(p.name), ".mp3"),
     prefix |-> "compressed_"]

\* input_path.replace('.wav', '_compressed.mp3'): every occurrence is replaced
ReplaceWav(p) ==
    [p EXCEPT !.name = [i \in 1 .. Len(p.name) |->
                          IF p.name[i] = ".wav" THEN "_compressed.mp3" ELSE p.name[i]]]

Exists(fs, p) == p \in DOMAIN fs

WriteFile(fs, p, size) ==
    [q \in DOMAIN fs \cup {p} |-> IF q = p THEN size ELSE fs[q]]

-----------------------------------------------------------------------------
(* compression_engine.py.  Each compress_* takes the storage, the engine's *)
(* models and what the environment decides (env).  It leaves an outcome:   *)
(* the dict it returned or the exception it raised, the storage, the       *)
(* backend that ran and the arguments the external encoder was given.      *)

NEURAL == "neural"
CLASSICAL == "classical"

\* _load_models: a model is loaded when its library was imported and
\* constructing the pretrained model did not raise
load_model(available, constructed) == available /\ constructed

\* (mutant) the branch looks at the library flag only
SelectBackendByLibrary(model, available) == IF available THEN NEURAL ELSE CLASSICAL

\* `if self.image_model and COMPRESSAI_AVAILABLE`,
\* `if self.audio_model and ENCODEC_AVAILABLE`
SelectBackend(model, available) == IF model /\ available THEN NEURAL ELSE CLASSICAL

\* (mutant) compressed_size / original_size * 100
RatioOfSizes(compressed_size, original_size) ==
    [num |-> 100 * compressed_size, den |-> original_size]

\* (1 - compressed_size / original_size) * 100, as an exact fraction
Ratio(compressed_size, original_size) ==
    [num |-> 100 * (original_size - compressed_size), den |-> original_size]

Success(original_size, compressed_size, ai_analysis) ==
    [ success |-> TRUE,
      original_size |-> Some(original_size),
      compressed_size |-> Some(compressed_size),
      compression_ratio |-> Some(Ratio(compressed_size, original_size)),
      ai_analysis |-> Some(ai_analysis),
      error |-> None ]

\* {"success": False, "error": str(e)}
Failure(error) ==
    [ success |-> FALSE,
      original_size |-> None,
      compressed_size |-> None,
      compression_ratio |-> None,
      ai_analysis |-> None,
      error |-> Some(error) ]

\* the body of a compress_* reached its return statement
Returned(result, fs, backend, args) ==
    [ raised |-> FALSE, error |-> "", result |-> Some(result), files |-> fs,
      backend |-> backend, args |-> args ]

\* a statement of the body raised
Raised(error, fs, backend, args) ==
    [ raised |-> TRUE, error |-> error, result |-> None, files |-> fs,
      backend |-> backend, args |-> args ]

\* the messages of the OSError family
OSErrors == {"No such file or directory", "cannot write"}

\* (mutant) except OSError as e: every other exception leaves the function
ExceptOSError(out) ==
    IF out.raised /\ out.error \in OSErrors
    THEN [out EXCEPT !.raised = FALSE, !.result = Some(Failure(out.error))]
    ELSE out

\* try: <body> except Exception as e: return {"success": False, "error": str(e)}
Except(out) ==
    IF out.raised
    THEN [out EXCEPT !.raised = FALSE, !.result = Some(Failure(out.error))]
    ELSE out

(* Region detection *)

\* `if w > 50 and h > 20` of _detect_important_regions
MinWidth == 50
MinHeight == 20

\* (mutant) while cap.isOpened() and frame_count <= 10
SampledFramesAndOne == 10 + 1

\* while cap.isOpened() and frame_count < 10
SampledFrames == 10

FaceRegion(bbox) == [type |-> "face", bbox |-> bbox, importance |-> "1.0"]

TextRegion(bbox) == [type |-> "text_candidate", bbox |-> bbox, importance |-> "0.7"]

\* (mutant) if w > 50 or h > 20
LargeEnoughEither(bbox) == bbox.w > MinWidth \/ bbox.h > MinHeight

\* if w > 50 and h > 20
LargeEnough(bbox) == bbox.w > MinWidth /\ bbox.h > MinHeight

\* _detect_important_regions: every face the cascade returns, then the
\* bounding boxes of the contours that pass the size filter
detect_important_regions(faces, contours) ==
    LET kept == SelectSeq(contours, LargeEnough)
    IN  [i \in 1 .. Len(faces) |-> FaceRegion(faces[i])]
        \o [i \in 1 .. Len(kept) |-> TextRegion(kept[i])]

\* the loop of _analyze_video_regions from frame_count on: the faces of each
\* frame read, until the video ends or SampledFrames frames were read
RECURSIVE analyze_frames(_, _)
analyze_frames(frames, frame_count) ==
    IF frame_count >= SampledFrames \/ frame_count >= Len(frames)
    THEN <<>>
    ELSE LET faces == frames[frame_count + 1].faces
         IN  [i \in 1 .. Len(faces) |->
                 [type |-> "face", bbox |-> faces[i], frame |-> frame_count,
                  importance |-> "1.0"]]
             \o analyze_frames(frames, frame_count + 1)

\* _analyze_video_regions: a capture that did not open yields no frame
analyze_video_regions(opened, frames) ==
    IF opened THEN analyze_frames(frames, 0) ELSE <<>>

(* Images *)

compress_image_try(fs, input_path, output_path, quality, adaptive_mode, model, available, env) ==
    IF ~Exists(fs, input_path)
    THEN Raised("No such file or directory", fs, None, None)
    ELSE IF env.fail = "load"
    THEN Raised("cannot identify image file", fs, None, None)
    ELSE IF adaptive_mode /\ env.fail = "detection"
    THEN Raised("detection error", fs, None, None)
    ELSE LET original_size == fs[input_path]
             important_regions == detect_important_regions(env.faces, env.contours)
             backend == SelectBackend(model, available)
         IN  IF backend = NEURAL /\ env.fail = "inference"
             THEN Raised("inference error", fs, Some(backend), None)
             ELSE IF env.fail = "io"
             THEN Raised("cannot write", fs, Some(backend), None)
             ELSE LET saved == WriteFile(fs, output_path, env.csize)
                      compressed_size == saved[output_path]
                  IN  IF original_size = 0
                      THEN Raised("division by zero", saved, Some(backend), None)
                      ELSE Returned(Success(original_size, compressed_size,
                                            [adaptive_mode |-> adaptive_mode,
                                             important_regions |->
                                                 IF adaptive_mode
                                                 THEN Len(important_regions) ELSE 0]),
                                    saved, Some(backend), None)

compress_image(fs, input_path, output_path, quality, adaptive_mode, model, available, env) ==
    Except(compress_image_try(fs, input_path, output_path, quality, adaptive_mode,
                              model, available, env))

(* Audio *)

\* ffmpeg ... .overwrite_output().run(): ffmpeg exits with an error when the
\* output names its own input, and on any failure of its own
FfmpegRun(fs, input_path, output_path, env) ==
    IF ~Exists(fs, input_path) \/ input_path = output_path \/ env.fail = "encoder"
    THEN [ok |-> FALSE, files |-> fs]
    ELSE [ok |-> TRUE, files |-> WriteFile(fs, output_path, env.csize)]

\* the file ffmpeg is told to write and the keyword arguments of .output(...)
\* in _compress_with_ffmpeg: audio_bitrate is int(bitrate * 1000), and the
\* bitrates drawn here are whole numbers, which int() leaves as they are
AudioArgs(output_path, bitrate) ==
    [acodec |-> "mp3", audio_bitrate |-> bitrate * 1000, output |-> output_path]

\* _compress_with_ffmpeg: returns the path it wrote
compress_with_ffmpeg(fs, input_path, env) ==
    LET output_path == ReplaceWav(input_path)
        run == FfmpegRun(fs, input_path, output_path, env)
    IN  [ok |-> run.ok, path |-> output_path, files |-> run.files]

\* _compress_with_encodec: librosa.load, encode and decode; returns bytes
compress_with_encodec(fs, input_path, env) ==
    IF env.fail \in {"load", "inference"}
    THEN [ok |-> FALSE, bytes |-> 0]
    ELSE [ok |-> TRUE, bytes |-> env.csize]

\* (mutant) "neural_compression": ENCODEC_AVAILABLE
AudioAnalysisByLibrary(model, available, bitrate) ==
    [neural_compression |-> available, target_bitrate |-> bitrate]

\* "ai_analysis" of compress_audio: "neural_compression": self.audio_model is not None
AudioAnalysis(model, available, bitrate) ==
    [neural_compression |-> model, target_bitrate |-> bitrate]

compress_audio_try(fs, input_path, output_path, bitrate, model, available, env) ==
    IF ~Exists(fs, input_path)
    THEN Raised("No such file or directory", fs, None, None)
    ELSE LET original_size == fs[input_path]
             backend == SelectBackend(model, available)
             analysis == AudioAnalysis(model, available, bitrate)
         IN  IF backend = NEURAL
             THEN \* _compress_with_encodec returns bytes, written to output_path
                  LET enc == compress_with_encodec(fs, input_path, env)
                  IN  IF ~enc.ok
                      THEN Raised("encodec error", fs, Some(backend), None)
                      ELSE IF env.fail = "io"
                      THEN Raised("cannot write", fs, Some(backend), None)
                      ELSE LET saved == WriteFile(fs, output_path, enc.bytes)
                           IN  IF original_size = 0
                               THEN Raised("division by zero", saved, Some(backend), None)
                               ELSE Returned(Success(original_size, saved[output_path], analysis),
                                             saved, Some(backend), None)
             ELSE \* _compress_with_ffmpeg returns a str: the file is already saved
                  LET ff == compress_with_ffmpeg(fs, input_path, env)
                      args == Some(AudioArgs(ff.path, bitrate))
                  IN  IF ~ff.ok
                      THEN Raised("ffmpeg error", ff.files, Some(backend), args)
                      ELSE IF original_size = 0
                      THEN Raised("division by zero", ff.files, Some(backend), args)
                      ELSE Returned(Success(original_size, ff.files[ff.path], analysis),
                                    ff.files, Some(backend), args)

compress_audio(fs, input_path, output_path, bitrate, model, available, env) ==
    Except(compress_audio_try(fs, input_path, output_path, bitrate, model, available, env))

(* Video *)

\* (mutant) crf = 51 - quality
CrfWholeQuality(quality) == [num |-> 2 * 51 - 2 * quality, den |-> 2]

\* crf = 51 - (quality * 0.5), as an exact fraction
Crf(quality) == [num |-> 2 * 51 - quality, den |-> 2]

\* the keyword arguments of ffmpeg's .output(...) in both video functions
VideoArgs(quality) ==
    [ vcodec |-> "libx264", crf |-> Crf(quality), preset |-> "medium",
      acodec |-> "aac", audio_bitrate |-> "128k" ]

\* (mutant) the adaptive function raises the quality when regions were found
compress_video_adaptive_by_regions(fs, input_path, output_path, quality, important_regions, env) ==
    [run |-> FfmpegRun(fs, input_path, output_path, env),
     args |-> VideoArgs(IF Len(important_regions) > 0 THEN quality + 10 ELSE quality)]

\* _compress_video_adaptive: important_regions is not used
compress_video_adaptive(fs, input_path, output_path, quality, important_regions, env) ==
    [run |-> FfmpegRun(fs, input_path, output_path, env), args |-> VideoArgs(quality)]

\* _compress_video_standard
compress_video_standard(fs, input_path, output_path, quality, env) ==
    [run |-> FfmpegRun(fs, input_path, output_path, env), args |-> VideoArgs(quality)]

compress_video_try(fs, input_path, output_path, quality, adaptive_mode, env) ==
    IF ~Exists(fs, input_path)
    THEN Raised("No such file or directory", fs, None, None)
    ELSE IF adaptive_mode /\ env.fail = "detection"
    THEN Raised("detection error", fs, None, None)
    ELSE LET original_size == fs[input_path]
             important_regions == analyze_video_regions(env.opened, env.frames)
             enc == IF adaptive_mode
                    THEN compress_video_adaptive(fs, input_path, output_path, quality,
                                                 important_regions, env)
                    ELSE compress_video_standard(fs, input_path, output_path, quality, env)
         IN  IF ~enc.run.ok
             THEN Raised("ffmpeg error", enc.run.files, Some(CLASSICAL), Some(enc.args))
             ELSE IF original_size = 0
             THEN Raised("division by zero", enc.run.files, Some(CLASSICAL), Some(enc.args))
             ELSE Returned(Success(original_size, enc.run.files[output_path],
                                   [adaptive_mode |-> adaptive_mode,
                                    important_regions |->
                                        IF adaptive_mode
                                        THEN Len(important_regions) ELSE 0]),
                           enc.run.files, Some(CLASSICAL), Some(enc.args))

compress_video(fs, input_path, output_path, quality, adaptive_mode, env) ==
    Except(compress_video_try(fs, input_path, output_path, quality, adaptive_mode, env))

-----------------------------------------------------------------------------
(* The two job tables *)

\* main.py:40, the dict the handlers use
MainTasks == "app.main.tasks"

\* (mutant) tasks.py imports the handlers' dict instead of defining its own
WorkerTasksShared == "app.main.tasks"

\* tasks.py:18, the dict the name `tasks` denotes inside the Celery tasks
WorkerTasks == "app.tasks.tasks"

Modules == {"app.main.tasks", "app.tasks.tasks"}

\* uuid.uuid4(): an id no earlier upload got
NextId == Cardinality(DOMAIN tasks[MainTasks]) + 1

\* tasks[task_id] = task, in main.py
Insert(t, task) ==
    [t EXCEPT ![MainTasks] =
        [i \in DOMAIN t[MainTasks] \cup {task.id} |->
            IF i = task.id THEN task ELSE t[MainTasks][i]]]

\* (mutant) the task writes the field into a copy of the handlers' record taken
\* before any progress was made, and stores the copy
SetFieldStaleCopy(t, task_id, field, value) ==
    IF task_id \in DOMAIN t[MainTasks]
    THEN [t EXCEPT ![MainTasks][task_id] = [[@ EXCEPT !.progress = 0] EXCEPT ![field] = value]]
    ELSE t

\* if task_id in tasks: tasks[task_id].<field> = value, in tasks.py
SetField(t, task_id, field, value) ==
    IF task_id \in DOMAIN t[WorkerTasks]
    THEN [t EXCEPT ![WorkerTasks][task_id][field] = value]
    ELSE t

-----------------------------------------------------------------------------
(* HTTP responses *)

Response(op, id, code, detail, body) ==
    [body |-> body, code |-> code, detail |-> detail, id |-> id, op |-> op]

NoResponse == Response("none", None, 0, "", None)

\* the dict get_task_status returns for a known task
Snapshot(task) ==
    [ task_id |-> task.id,
      status |-> task.status,
      progress |-> task.progress,
      original_size |-> task.original_size,
      compressed_size |-> task.compressed_size,
      compression_ratio |-> task.compression_ratio,
      download_url |-> IF task.status = COMPLETED THEN Some(task.id) ELSE None,
      error |-> task.error_message ]

\* (mutant) the handler answers without looking the id up first
PollResponseNoLookup(t, task_id) ==
    Response("poll", Some(task_id), 200, "",
             IF task_id \in DOMAIN t[MainTasks]
             THEN Some(Snapshot(t[MainTasks][task_id])) ELSE None)

\* get_task_status
PollResponse(t, task_id) ==
    IF task_id \notin DOMAIN t[MainTasks]
    THEN Response("poll", Some(task_id), 404, "Task not found", None)
    ELSE Response("poll", Some(task_id), 200, "", Some(Snapshot(t[MainTasks][task_id])))

\* (mutant) the handler does not look at the status
DownloadResponseNoStatus(t, fs, task_id) ==
    IF task_id \notin DOMAIN t[MainTasks]
    THEN Response("download", Some(task_id), 404, "Task not found", None)
    ELSE LET task == t[MainTasks][task_id]
         IN  IF ~IsSet(task.compressed_file_path)
                \/ ~Exists(fs, Get(task.compressed_file_path))
             THEN Response("download", Some(task_id), 404,
                           "Compressed file not found", None)
             ELSE Response("download", Some(task_id), 200, "",
                           Some([file |-> Get(task.compressed_file_path),
                                 filename |-> <<"compressed_">> \o task.original_filename]))

\* download_compressed_file
DownloadResponse(t, fs, task_id) ==
    IF task_id \notin DOMAIN t[MainTasks]
    THEN Response("download", Some(task_id), 404, "Task not found", None)
    ELSE LET task == t[MainTasks][task_id]
         IN  IF task.status # COMPLETED
             THEN Response("download", Some(task_id), 400, "Task not completed", None)
             ELSE IF ~IsSet(task.compressed_file_path)
                     \/ ~Exists(fs, Get(task.compressed_file_path))
                  THEN Response("download", Some(task_id), 404,
                                "Compressed file not found", None)
                  ELSE Response("download", Some(task_id), 200, "",
                                Some([file |-> Get(task.compressed_file_path),
                                      filename |-> <<"compressed_">> \o task.original_filename]))

\* the JSON an upload handler returns
UploadResponse(task_id) ==
    Response("upload", Some(task_id), 200, "", Some([task_id |-> task_id, status |-> "processing"]))

\* HTTPException(status_code=400, ...) of an upload handler
UploadRejected(detail) == Response("upload", None, 400, detail, None)

-----------------------------------------------------------------------------
(* Direct engine calls *)

\* no engine function was called directly yet
NoCall == [args |-> None, fn |-> "none", out |-> None]

-----------------------------------------------------------------------------
(* Initial state: both dicts empty, the engine's models loaded or not; the *)
(* clients of the run make at most n uploads                              *)

Start(n) ==
    /\ COMPRESSAI_AVAILABLE \in BOOLEAN
    /\ ENCODEC_AVAILABLE \in BOOLEAN
    /\ \E constructed \in BOOLEAN :
           image_model = load_model(COMPRESSAI_AVAILABLE, constructed)
    /\ \E constructed \in BOOLEAN :
           audio_model = load_model(ENCODEC_AVAILABLE, constructed)
    /\ max_jobs = n
    /\ tasks = [m \in Modules |-> <<>>]
    /\ files = <<>>
    /\ handler = {}
    /\ queue = {}
    /\ worker = <<>>
    /\ resp = NoResponse
    /\ call = NoCall

Init == Start(MaxJobs)

-----------------------------------------------------------------------------
(* main.py: the upload handlers.  A handler runs to tasks[task_id] = task  *)
(* in one step and sends the Celery message and returns in a second one.   *)

\* file.content_type.startswith('<type>/')
StartsWith(content_type, type) == content_type[1] = type

\* the status an upload handler creates the task with
UploadStatus == PROCESSING

\* a message of send_task: the task's name and its args
Message(name, task_id, file_path, quality, adaptive_mode, bitrate) ==
    [ name |-> name, task_id |-> task_id, file_path |-> file_path,
      quality |-> quality, adaptive_mode |-> adaptive_mode, bitrate |-> bitrate ]

\* (mutant) the handler goes on to send_task without tasks[task_id] = task
AcceptNoInsert(task, msg) ==
    /\ task.id \in Ids
    /\ files' = WriteFile(files, task.file_path, task.original_size)
    /\ handler' = handler \cup {msg}
    /\ resp' = NoResponse
    /\ UNCHANGED <<engine, call, tasks, queue, worker>>

\* the handler from the file save to tasks[task_id] = task
Accept(task, msg) ==
    /\ task.id \in Ids
    /\ files' = WriteFile(files, task.file_path, task.original_size)
    /\ tasks' = Insert(tasks, task)
    /\ handler' = handler \cup {msg}
    /\ resp' = NoResponse
    /\ UNCHANGED <<engine, call, queue, worker>>

Reject(detail) ==
    /\ resp' = UploadRejected(detail)
    /\ UNCHANGED <<engine, call, tasks, files, handler, queue, worker>>

upload_image(content_type, filename, size, quality, adaptive_mode) ==
    \/ /\ ~StartsWith(content_type, "image")
       /\ Reject("File must be an image")
    \/ /\ StartsWith(content_type, "image")
       /\ LET task_id == NextId
              file_path == UploadPath(task_id, filename)
          IN  Accept(CompressionTask(task_id, "image", filename, size, file_path,
                                     Some(quality), Some(adaptive_mode), None, UploadStatus),
                     Message("compress_image", task_id, file_path,
                             Some(quality), Some(adaptive_mode), None))

upload_audio(content_type, filename, size, bitrate) ==
    \/ /\ ~StartsWith(content_type, "audio")
       /\ Reject("File must be an audio file")
    \/ /\ StartsWith(content_type, "audio")
       /\ LET task_id == NextId
              file_path == UploadPath(task_id, filename)
          IN  Accept(CompressionTask(task_id, "audio", filename, size, file_path,
                                     None, None, Some(bitrate), UploadStatus),
                     Message("compress_audio", task_id, file_path,
                             None, None, Some(bitrate)))

upload_video(content_type, filename, size, quality, adaptive_mode) ==
    \/ /\ ~StartsWith(content_type, "video")
       /\ Reject("File must be a video file")
    \/ /\ StartsWith(content_type, "video")
       /\ LET task_id == NextId
              file_path == UploadPath(task_id, filename)
          IN  Accept(CompressionTask(task_id, "video", filename, size, file_path,
                                     Some(quality), Some(adaptive_mode), None, UploadStatus),
                     Message("compress_video", task_id, file_path,
                             Some(quality), Some(adaptive_mode), None))

\* (mutant) the handler sends the message and stays where it was, to send again
send_task_again(msg) ==
    /\ msg \in handler
    /\ queue' = queue \cup {msg}
    /\ resp' = UploadResponse(msg.task_id)
    /\ UNCHANGED <<engine, call, tasks, files, handler, worker>>

\* celery_app.send_task(...) and the handler's return
send_task(msg) ==
    /\ msg \in handler
    /\ handler' = handler \ {msg}
    /\ queue' = queue \cup {msg}
    /\ resp' = UploadResponse(msg.task_id)
    /\ UNCHANGED <<engine, call, tasks, files, worker>>

(* main.py: the read handlers *)

\* (mutant) task = tasks.pop(task_id): the poll consumes the record
get_task_status_pop(task_id) ==
    /\ resp' = PollResponse(tasks, task_id)
    /\ tasks' = [tasks EXCEPT ![MainTasks] =
                    [i \in DOMAIN tasks[MainTasks] \ {task_id} |-> tasks[MainTasks][i]]]
    /\ UNCHANGED <<engine, call, files, handler, queue, worker>>

get_task_status(task_id) ==
    /\ resp' = PollResponse(tasks, task_id)
    /\ UNCHANGED <<engine, call, tasks, files, handler, queue, worker>>

download_compressed_file(task_id) ==
    /\ resp' = DownloadResponse(tasks, files, task_id)
    /\ UNCHANGED <<engine, call, tasks, files, handler, queue, worker>>

-----------------------------------------------------------------------------
(* The broker and the worker pool (celery_app.py): a message sent is       *)
(* delivered once, to a worker that runs the task of that name.            *)

Frame(msg) ==
    [ pc |-> "set_processing",
      name |-> msg.name,
      task_id |-> msg.task_id,
      file_path |-> msg.file_path,
      quality |-> msg.quality,
      adaptive_mode |-> msg.adaptive_mode,
      bitrate |-> msg.bitrate,
      output_path |-> None,
      result |-> None,
      e |-> None,
      returned |-> None ]

Deliver(msg) ==
    /\ msg \in queue
    /\ msg.task_id \notin DOMAIN worker
    /\ queue' = queue \ {msg}
    /\ worker' = [i \in DOMAIN worker \cup {msg.task_id} |->
                     IF i = msg.task_id THEN Frame(msg) ELSE worker[i]]
    /\ resp' = NoResponse
    /\ UNCHANGED <<engine, call, tasks, files, handler>>

-----------------------------------------------------------------------------
(* tasks.py: compress_image, compress_audio and compress_video, statement  *)
(* by statement.  The three differ in the output path and the engine call. *)

At(id, pc) == id \in DOMAIN worker /\ worker[id].pc = pc

\* one statement of the task: a write to the task's record, then the next pc
Step(id, pc, field, value, next) ==
    /\ At(id, pc)
    /\ tasks' = SetField(tasks, id, field, value)
    /\ worker' = [worker EXCEPT ![id].pc = next]
    /\ resp' = NoResponse
    /\ UNCHANGED <<engine, call, files, handler, queue>>

\* return {...}: the task ends and its locals are gone
Return(id, pc, field, value, success) ==
    /\ At(id, pc)
    /\ tasks' = SetField(tasks, id, field, value)
    /\ worker' = [worker EXCEPT ![id] =
                     [@ EXCEPT !.pc = "done", !.output_path = None, !.result = None,
                               !.e = None, !.returned = Some(success)]]
    /\ resp' = NoResponse
    /\ UNCHANGED <<engine, call, files, handler, queue>>

\* tasks[task_id].status = TaskStatus.PROCESSING
SetProcessing(id) == Step(id, "set_processing", "status", PROCESSING, "set_progress_10")

\* tasks[task_id].progress = 10
SetProgress10(id) == Step(id, "set_progress_10", "progress", 10, "output_path")

\* the path the task will record as the artifact
OutputPath(name, file_path) ==
    IF name = "compress_audio" THEN OutputPathMp3(file_path) ELSE OutputPathSameName(file_path)

\* output_path = ...; output_path.parent.mkdir(exist_ok=True), which may raise
MakeOutputPath(id) ==
    /\ At(id, "output_path")
    /\ \/ worker' = [worker EXCEPT
                        ![id].output_path = Some(OutputPath(worker[id].name, worker[id].file_path)),
                        ![id].pc = "set_progress_30"]
       \/ worker' = [worker EXCEPT
                        ![id].e = Some("mkdir failed"),
                        ![id].pc = "except_set_failed"]
    /\ resp' = NoResponse
    /\ UNCHANGED <<engine, call, tasks, files, handler, queue>>

\* tasks[task_id].progress = 30
SetProgress30(id) == Step(id, "set_progress_30", "progress", 30, "compress")

\* compression_engine.compress_<kind>(...), on the engine of the worker process
Compress(f, fs, env) ==
    IF f.name = "compress_image"
    THEN compress_image(fs, f.file_path, Get(f.output_path), Get(f.quality),
                        Get(f.adaptive_mode), image_model, COMPRESSAI_AVAILABLE, env)
    ELSE IF f.name = "compress_audio"
    THEN compress_audio(fs, f.file_path, Get(f.output_path), Get(f.bitrate),
                        audio_model, ENCODEC_AVAILABLE, env)
    ELSE compress_video(fs, f.file_path, Get(f.output_path), Get(f.quality),
                        Get(f.adaptive_mode), env)

\* result = compression_engine.compress_<kind>(...); if result["success"]:
\* an exception leaving the engine is caught by the task's own except
CallEngine(id) ==
    /\ At(id, "compress")
    /\ \E env \in EngineEnvs :
           LET out == Compress(worker[id], files, env)
           IN  /\ files' = out.files
               /\ worker' = IF out.raised
                            THEN [worker EXCEPT ![id].e = Some(out.error),
                                                ![id].pc = "except_set_failed"]
                            ELSE [worker EXCEPT
                                     ![id].result = out.result,
                                     ![id].pc = IF Get(out.result).success
                                                THEN "set_completed" ELSE "set_failed"]
    /\ resp' = NoResponse
    /\ UNCHANGED <<engine, call, tasks, handler, queue>>

Result(id) == Get(worker[id].result)

\* the success branch
SetCompleted(id) == Step(id, "set_completed", "status", COMPLETED, "set_progress_100")
SetProgress100(id) == Step(id, "set_progress_100", "progress", 100, "set_compressed_file_path")
SetCompressedFilePath(id) ==
    /\ At(id, "set_compressed_file_path")
    /\ Step(id, "set_compressed_file_path", "compressed_file_path",
            worker[id].output_path, "set_compressed_size")
SetCompressedSize(id) ==
    /\ At(id, "set_compressed_size")
    /\ Step(id, "set_compressed_size", "compressed_size",
            Result(id).compressed_size, "set_compression_ratio")
SetCompressionRatio(id) ==
    /\ At(id, "set_compression_ratio")
    /\ Step(id, "set_compression_ratio", "compression_ratio",
            Result(id).compression_ratio, "set_ai_analysis")
SetAiAnalysis(id) ==
    /\ At(id, "set_ai_analysis")
    /\ Return(id, "set_ai_analysis", "ai_analysis", Result(id).ai_analysis, TRUE)

\* the else branch: result["success"] is false
SetFailed(id) == Step(id, "set_failed", "status", FAILED, "set_error_message")
SetErrorMessage(id) ==
    /\ At(id, "set_error_message")
    /\ Return(id, "set_error_message", "error_message", Result(id).error, FALSE)

\* except Exception as e:
ExceptSetFailed(id) == Step(id, "except_set_failed", "status", FAILED, "except_set_error_message")
ExceptSetErrorMessage(id) ==
    /\ At(id, "except_set_error_message")
    /\ Return(id, "except_set_error_message", "error_message", worker[id].e, FALSE)

WorkerStep(id) ==
    \/ SetProcessing(id)
    \/ SetProgress10(id)
    \/ MakeOutputPath(id)
    \/ SetProgress30(id)
    \/ CallEngine(id)
    \/ SetCompleted(id)
    \/ SetProgress100(id)
    \/ SetCompressedFilePath(id)
    \/ SetCompressedSize(id)
    \/ SetCompressionRatio(id)
    \/ SetAiAnalysis(id)
    \/ SetFailed(id)
    \/ SetErrorMessage(id)
    \/ ExceptSetFailed(id)
    \/ ExceptSetErrorMessage(id)

-----------------------------------------------------------------------------

Upload ==
    \/ \E ct \in ContentTypes, fn \in ImageFilenames, size \in UploadSizes,
          q \in ImageQualities, am \in AdaptiveModes : upload_image(ct, fn, size, q, am)
    \/ \E ct \in ContentTypes, fn \in AudioFilenames, size \in UploadSizes,
          br \in Bitrates : upload_audio(ct, fn, size, br)
    \/ \E ct \in ContentTypes, fn \in VideoFilenames, size \in UploadSizes,
          q \in VideoQualities, am \in AdaptiveModes : upload_video(ct, fn, size, q, am)

Next ==
    \/ Upload
    \/ \E msg \in handler : send_task(msg)
    \/ \E id \in AskIds : get_task_status(id)
    \/ \E id \in AskIds : download_compressed_file(id)
    \/ \E msg \in queue : Deliver(msg)
    \/ \E id \in Ids : WorkerStep(id)

Spec == Init /\ [][Next]_vars

\* the same program with one more upload, so that two jobs can be in flight
PairInit == Start(MaxJobs + 1)

PairSpec == PairInit /\ [][Next]_vars

\* image uploads, the broker and the workers, without the read handlers:
\* what is sent, delivered and executed, with two jobs in flight
DispatchNext ==
    \/ \E ct \in ContentTypes, fn \in ImageFilenames, size \in UploadSizes,
          q \in ImageQualities, am \in AdaptiveModes : upload_image(ct, fn, size, q, am)
    \/ \E msg \in handler : send_task(msg)
    \/ \E msg \in queue : Deliver(msg)
    \/ \E id \in Ids : WorkerStep(id)

DispatchSpec == PairInit /\ [][DispatchNext]_vars

-----------------------------------------------------------------------------
(* The engine's functions called directly, one call in a run, on a storage *)
(* that holds the input file or nothing.                                   *)

InputPath(filename) == UploadPath(1, filename)

\* the storage a call starts from: `input` is the size of the input file, if
\* there is one
Storage(input_path, input) ==
    IF IsSet(input) THEN WriteFile(<<>>, input_path, Get(input)) ELSE <<>>

Called(fn, args, out, fs) ==
    /\ call' = [args |-> Some(args), fn |-> fn, out |-> Some(out)]
    /\ files' = fs
    /\ resp' = NoResponse
    /\ UNCHANGED <<engine, tasks, handler, queue, worker>>

CallCompressImage(input, quality, adaptive_mode, env) ==
    LET input_path == InputPath(<<"a", ".png">>)
        output_path == OutputPathSameName(input_path)
        out == compress_image(Storage(input_path, input), input_path, output_path,
                              quality, adaptive_mode, image_model, COMPRESSAI_AVAILABLE, env)
    IN  Called("compress_image",
               [input |-> input, input_path |-> input_path,
                output_path |-> output_path, quality |-> quality,
                adaptive_mode |-> adaptive_mode, env |-> env],
               out, out.files)

CallCompressAudio(input, filename, bitrate, env) ==
    LET input_path == InputPath(filename)
        output_path == OutputPathMp3(input_path)
        out == compress_audio(Storage(input_path, input), input_path, output_path,
                              bitrate, audio_model, ENCODEC_AVAILABLE, env)
    IN  Called("compress_audio",
               [input |-> input, input_path |-> input_path,
                output_path |-> output_path, bitrate |-> bitrate, env |-> env],
               out, out.files)

CallCompressVideo(input, quality, adaptive_mode, env) ==
    LET input_path == InputPath(<<"a", ".mp4">>)
        output_path == OutputPathSameName(input_path)
        out == compress_video(Storage(input_path, input), input_path, output_path,
                              quality, adaptive_mode, env)
    IN  Called("compress_video",
               [input |-> input, input_path |-> input_path,
                output_path |-> output_path, quality |-> quality,
                adaptive_mode |-> adaptive_mode, env |-> env],
               out, out.files)

CallDetectImportantRegions(faces, contours) ==
    Called("_detect_important_regions",
           [faces |-> faces, contours |-> contours],
           detect_important_regions(faces, contours), files)

CallAnalyzeVideoRegions(opened, frames) ==
    Called("_analyze_video_regions",
           [opened |-> opened, frames |-> frames],
           analyze_video_regions(opened, frames), files)

EngineNext ==
    \/ /\ call = NoCall
       /\ \E input \in InputFiles, q \in ImageCallQualities, am \in BOOLEAN,
             fail \in Fails, csize \in OutputSizes, faces \in FaceLists :
              CallCompressImage(input, q, am,
                                Env(fail, csize, faces, <<Box(51, 21)>>, TRUE, <<>>))
    \/ /\ call = NoCall
       /\ \E input \in InputFiles, fn \in AudioFilenames, br \in Bitrates,
             fail \in Fails, csize \in OutputSizes :
              CallCompressAudio(input, fn, br, Env(fail, csize, <<>>, <<>>, TRUE, <<>>))
    \/ /\ call = NoCall
       /\ \E input \in InputFiles, q \in CallQualities, am \in BOOLEAN,
             fail \in Fails, csize \in OutputSizes :
              CallCompressVideo(input, q, am,
                                Env(fail, csize, <<>>, <<>>, TRUE,
                                    <<VideoFrame(<<Box(60, 60)>>, <<>>)>>))
    \/ /\ call = NoCall
       /\ \E input \in InputFiles, q \in VideoQualities, am \in BOOLEAN,
             fail \in Fails, csize \in OutputSizes, opened \in BOOLEAN,
             frames \in CallFrameLists :
              CallCompressVideo(input, q, am,
                                Env(fail, csize, <<>>, <<>>, opened, frames))
    \/ /\ call = NoCall
       /\ \E opened \in BOOLEAN, frames \in VideoFrameLists :
              CallAnalyzeVideoRegions(opened, frames)
    \/ /\ call = NoCall
       /\ \E faces \in FaceLists, contours \in ContourLists :
              CallDetectImportantRegions(faces, contours)

EngineSpec == Init /\ [][EngineNext]_vars

-----------------------------------------------------------------------------
(* Properties *)

\* every CompressionTask record, in either dict
Records == UNION {{tasks[m][id] : id \in DOMAIN tasks[m]} : m \in Modules}

Known(id) == id \in DOMAIN tasks[MainTasks]
Job(id) == tasks[MainTasks][id]
Terminal(status) == status \in {COMPLETED, FAILED}
Done(id) == id \in DOMAIN worker /\ worker[id].pc = "done"

\* the statements of the success branch of a task
SuccessPcs ==
    {"set_completed", "set_progress_100", "set_compressed_file_path",
     "set_compressed_size", "set_compression_ratio", "set_ai_analysis"}

\* C1: every accepted job gets a terminal status in the table get_task_status
\* reads, once the broker has delivered it and its task has run to its end:
\* a job whose task has returned is Completed or Failed there.
C1_TaskEndLeavesJobTerminal ==
    \A id \in DOMAIN tasks[MainTasks] : Done(id) => Terminal(Job(id).status)

C4_ProgressMonotone ==
    [][\A m \in Modules : \A id \in DOMAIN tasks[m] :
          /\ id \in DOMAIN tasks'[m]
          /\ tasks'[m][id].progress >= tasks[m][id].progress]_vars

\* a task has gone through its progress writes and the engine call
C4_Witness ==
    \E id \in DOMAIN tasks[MainTasks] :
        /\ id \in DOMAIN worker
        /\ worker[id].pc \in SuccessPcs \cup {"set_failed", "set_error_message"}
        /\ Job(id).progress = 0

\* C6: a job the handlers have created and no worker has started on has
\* status Pending and progress 0.
C6_CreatedPending ==
    \A id \in DOMAIN tasks[MainTasks] :
        id \notin DOMAIN worker => Job(id).status = PENDING /\ Job(id).progress = 0

\* C7: a Completed job's compressed_file_path names a file in storage, and
\* so does the path a task is recording while it marks its job Completed
\* (the statements of its success branch): the backend has written the
\* artifact before the status is published.
C7_ArtifactWrittenBeforeCompleted ==
    /\ \A t \in Records :
          t.status = COMPLETED /\ IsSet(t.compressed_file_path)
              => Exists(files, Get(t.compressed_file_path))
    /\ \A id \in DOMAIN worker :
          worker[id].pc \in SuccessPcs
              => /\ IsSet(worker[id].output_path)
                 /\ Exists(files, Get(worker[id].output_path))

\* C8: a download of a known job that is not Completed answers 400 "Task
\* not completed" and changes no record.
C8_DownloadNotCompletedRejected ==
    [][\A id \in AskIds :
          (resp'.op = "download" /\ resp'.id = Some(id)
              /\ Known(id) /\ Job(id).status # COMPLETED)
          => (resp'.code = 400 /\ resp'.detail = "Task not completed"
                 /\ tasks' = tasks)]_vars

C8_Witness ==
    /\ resp.op = "download"
    /\ resp.code = 400
    /\ Known(Get(resp.id))
    /\ Job(Get(resp.id)).status = PROCESSING

\* C9: a poll or a download of an id no upload returned answers 404 "Task
\* not found" and creates no record nor changes one.
C9_UnknownIdNotFound ==
    [][\A id \in AskIds :
          (resp'.op \in {"poll", "download"} /\ resp'.id = Some(id) /\ ~Known(id))
          => (resp'.code = 404 /\ resp'.detail = "Task not found"
                 /\ tasks' = tasks)]_vars

C9_Witness ==
    /\ resp.op = "poll"
    /\ resp.code = 404
    /\ ~Known(Get(resp.id))
    /\ DOMAIN tasks[MainTasks] # {}

\* C10: a poll changes no record, and a poll that directly follows a poll
\* of the same id returns the same snapshot.
C10_PollIdempotent ==
    [][\A id \in AskIds :
          (resp'.op = "poll" /\ resp'.id = Some(id))
          => /\ tasks' = tasks
             /\ (resp.op = "poll" /\ resp.id = Some(id)) => resp' = resp]_vars

C10_Witness ==
    /\ resp.op = "poll"
    /\ resp.code = 200
    /\ Known(Get(resp.id))
    /\ Get(resp.body) = Snapshot(Job(Get(resp.id)))

\* C14: when the engine returns a failure, or the task catches an exception,
\* the job ends Failed with a non-empty error_message and its progress stays at
\* the last checkpoint written before the failure (10 or 30), neither 0 nor 100.
C14_FailureEndsFailed ==
    \A id \in DOMAIN tasks[MainTasks] :
        (Done(id) /\ worker[id].returned = Some(FALSE)) =>
            /\ Job(id).status = FAILED
            /\ IsSet(Job(id).error_message)
            /\ Get(Job(id).error_message) # ""
            /\ Job(id).progress \in {10, 30}

\* the snapshot belongs to one checkpoint of the lifecycle
Checkpoint(s) ==
    /\ s.status = COMPLETED =>
           /\ s.progress = 100
           /\ IsSet(s.compressed_size) /\ IsSet(s.compression_ratio)
           /\ IsSet(s.download_url)
           /\ ~IsSet(s.error)
    /\ s.status = FAILED =>
           /\ s.progress # 100
           /\ IsSet(s.error)
           /\ ~IsSet(s.compressed_size) /\ ~IsSet(s.compression_ratio)
    /\ s.status \in {PENDING, PROCESSING} =>
           /\ s.progress # 100
           /\ ~IsSet(s.error)
           /\ ~IsSet(s.compressed_size) /\ ~IsSet(s.compression_ratio)
           /\ ~IsSet(s.download_url)

C20_FailureIsolated ==
    \A a \in DOMAIN tasks[MainTasks], b \in DOMAIN tasks[MainTasks] :
        (a # b /\ Done(a) /\ worker[a].returned = Some(FALSE)) =>
            /\ b \notin DOMAIN worker =>
                   /\ Job(b).progress = 0
                   /\ ~IsSet(Job(b).error_message)
                   /\ ~IsSet(Job(b).compressed_size)
                   /\ ~Terminal(Job(b).status)
            /\ Done(b) =>
                   /\ Terminal(Job(b).status)
                   /\ worker[b].returned = Some(TRUE) => Job(b).status = COMPLETED

\* C21: in every state, a Pending job has progress 0, a Processing job has
\* progress 10 or 30, a Completed job has progress 100, and no job has any
\* other progress.
C21_ProgressMatchesStatus ==
    \A t \in Records :
        /\ t.progress \in {0, 10, 30, 100}
        /\ t.status = PENDING => t.progress = 0
        /\ t.status = PROCESSING => t.progress \in {10, 30}
        /\ t.status = COMPLETED => t.progress = 100

\* where the work of job id stands: in its upload handler before send_task,
\* in the broker, in a worker
InHandler(id) == \E msg \in handler : msg.task_id = id
InQueue(id) == \E msg \in queue : msg.task_id = id
InWorker(id) == id \in DOMAIN worker
Executing(id) == InWorker(id) /\ worker[id].pc # "done"

C26_RecordBeforeWork ==
    /\ \A msg \in handler \cup queue : Known(msg.task_id)
    /\ \A id \in DOMAIN worker : Known(id)
    /\ (resp.op = "poll" /\ Executing(Get(resp.id))) =>
           (resp.code = 200 /\ Get(resp.body).task_id = Get(resp.id))

\* a poll of a job answered while its task is at the engine call
C26_Witness ==
    /\ resp.op = "poll"
    /\ Executing(Get(resp.id))
    /\ worker[Get(resp.id)].pc = "compress"
    /\ resp.code = 200

-----------------------------------------------------------------------------
(* The upload handlers alone, with parameters in and out of the documented *)
(* ranges.                                                                 *)

SubmitNext ==
    \/ \E ct \in ContentTypes, fn \in ImageFilenames, size \in UploadSizes,
          q \in SubmitQualities, am \in BOOLEAN : upload_image(ct, fn, size, q, am)
    \/ \E ct \in ContentTypes, fn \in AudioFilenames, size \in UploadSizes,
          br \in Bitrates : upload_audio(ct, fn, size, br)
    \/ \E ct \in ContentTypes, fn \in VideoFilenames, size \in UploadSizes,
          q \in SubmitQualities, am \in BOOLEAN : upload_video(ct, fn, size, q, am)
    \/ \E msg \in handler : send_task(msg)

SubmitSpec == Init /\ [][SubmitNext]_vars

\* quality: Optional[int] = None  # 1-100
ValidQualities == 1 .. 100

\* C13: an upload whose media kind does not match the endpoint, or whose quality
\* is outside 1..100, is rejected and creates nothing: a rejected upload changes
\* no table and sends no message, and no job and no message carries a quality
\* outside 1..100.
C13_InvalidSubmitRejected ==
    /\ \A id \in DOMAIN tasks[MainTasks] :
           IsSet(Job(id).quality) => Get(Job(id).quality) \in ValidQualities
    /\ \A msg \in handler \cup queue :
           IsSet(msg.quality) => Get(msg.quality) \in ValidQualities

-----------------------------------------------------------------------------
(* Properties of the engine's functions (EngineSpec) *)

EngineFunctions == {"compress_image", "compress_audio", "compress_video"}

\* an engine function was called; its arguments and what it left
EngineCalled == call.fn \in EngineFunctions
CallArgs == Get(call.args)
CallOut == Get(call.out)

\* the call returned a dict, and the dict says success
CallReturned == EngineCalled /\ ~CallOut.raised /\ IsSet(CallOut.result)
CallResult == Get(CallOut.result)
CallSucceeded == CallReturned /\ CallResult.success

\* C11, as a fraction: the compression_ratio of a successful result is the fraction
\* 1 - compressed_size/original_size of the sizes of the same result.
C11_RatioIsFraction ==
    CallSucceeded =>
        LET ratio == Get(CallResult.compression_ratio)
            o == Get(CallResult.original_size)
            c == Get(CallResult.compressed_size)
        IN  ratio.num * o = (o - c) * ratio.den

\* C11, amended: the compression_ratio of every successful result is the
\* percentage (1 - compressed_size/original_size) * 100 of the compressed_size
\* and original_size of the same result, original_size being the size of the
\* input file (the size the job record stores); it is negative when the output
\* is larger than the input.
C11_RatioIsPercentage ==
    CallSucceeded =>
        LET ratio == Get(CallResult.compression_ratio)
            o == Get(CallResult.original_size)
            c == Get(CallResult.compressed_size)
        IN  /\ o = Get(CallArgs.input)
            /\ ratio.den # 0
            /\ ratio.num * o = 100 * (o - c) * ratio.den
            /\ (ratio.num < 0) <=> (c > o)

\* a successful call whose output is larger than its input
C11_Witness ==
    /\ CallSucceeded
    /\ Get(CallResult.compressed_size) > Get(CallResult.original_size)
    /\ Get(CallResult.compression_ratio).num < 0

\* the call got past opening its input and detecting regions, to the
\* statement that selects the backend
ReachedSelection ==
    /\ EngineCalled
    /\ IsSet(CallArgs.input)
    /\ call.fn = "compress_image" => CallArgs.env.fail # "load"
    /\ call.fn \in {"compress_image", "compress_video"} =>
           ~(CallArgs.adaptive_mode /\ CallArgs.env.fail = "detection")

\* C12: every engine call that gets to selecting a backend runs exactly one
\* backend, whatever models are loaded: the neural one for an image (an audio
\* file) exactly when the image (audio) model is loaded, the classical one
\* otherwise, and always the classical one for a video; a call that does not get
\* there runs none.
C12_BackendSelection ==
    EngineCalled =>
        /\ IsSet(CallOut.backend) <=> ReachedSelection
        /\ IsSet(CallOut.backend) =>
               /\ Get(CallOut.backend) \in {NEURAL, CLASSICAL}
               /\ call.fn = "compress_image" =>
                      (Get(CallOut.backend) = NEURAL <=> image_model)
               /\ call.fn = "compress_audio" =>
                      (Get(CallOut.backend) = NEURAL <=> audio_model)
               /\ call.fn = "compress_video" => Get(CallOut.backend) = CLASSICAL

\* an image compressed by the neural backend while the audio model is not loaded
C12_Witness ==
    /\ CallSucceeded
    /\ call.fn = "compress_image"
    /\ image_model /\ ~audio_model
    /\ CallOut.backend = Some(NEURAL)

\* C15: compress_image, compress_audio and compress_video never let an
\* exception out: whatever fails inside them (a missing or unreadable input,
\* region detection, model inference, the external encoder, writing the output,
\* an empty input), the call returns a dict with success false and an error, and
\* a call in which nothing fails returns one with success true and no error.
C15_EngineNeverRaises ==
    EngineCalled =>
        /\ ~CallOut.raised
        /\ IsSet(CallOut.result)
        /\ CallResult.success <=> ~IsSet(CallResult.error)
        /\ ~IsSet(CallArgs.input) => ~CallResult.success
        /\ CallArgs.input = Some(0) => ~CallResult.success
        /\ (call.fn = "compress_image" /\ CallArgs.env.fail \in {"load", "io"})
               => ~CallResult.success
        /\ (call.fn \in {"compress_image", "compress_video"} /\ CallArgs.adaptive_mode
               /\ CallArgs.env.fail = "detection") => ~CallResult.success
        /\ (CallOut.backend = Some(NEURAL) /\ CallArgs.env.fail \in {"inference", "io"})
               => ~CallResult.success
        /\ (CallOut.backend = Some(CLASSICAL) /\ call.fn # "compress_image"
               /\ CallArgs.env.fail = "encoder") => ~CallResult.success
        /\ (CallArgs.env.fail = "none" /\ CallArgs.input = Some(2)
               /\ call.fn # "compress_audio") => CallResult.success

\* the external encoder failed in a video call, and the call returned a failure
C15_Witness ==
    /\ CallReturned
    /\ call.fn = "compress_video"
    /\ IsSet(CallArgs.input)
    /\ CallArgs.env.fail = "encoder"
    /\ ~CallResult.success
    /\ CallResult.error = Some("ffmpeg error")

\* the encoder of a video call was given its arguments
EncoderCalled == call.fn = "compress_video" /\ IsSet(CallOut.args)
CallCrf == Get(CallOut.args).crf

\* C17: for every quality in 0..100 the crf given to the video encoder is
\* 51 - quality * 0.5, unclamped, in the adaptive and the standard function
\* alike: 1 for quality 100, 26 for 50, 51 for 0, and a larger quality always
\* gets a strictly smaller crf.
C17_VideoCrf ==
    EncoderCalled =>
        LET q == CallArgs.quality
        IN  /\ CallCrf.den > 0
            /\ 2 * CallCrf.num = (102 - q) * CallCrf.den
            /\ q = 100 => CallCrf.num = 1 * CallCrf.den
            /\ q = 50 => CallCrf.num = 26 * CallCrf.den
            /\ q = 0 => CallCrf.num = 51 * CallCrf.den
            /\ \A q2 \in CallQualities :
                   q2 > q => Crf(q2).num * CallCrf.den < CallCrf.num * Crf(q2).den

\* a standard (non-adaptive) video call with quality 100 ran the encoder with crf 1
C17_Witness ==
    /\ EncoderCalled
    /\ CallSucceeded
    /\ ~CallArgs.adaptive_mode
    /\ CallArgs.quality = 100
    /\ CallCrf = [num |-> 2, den |-> 2]

DetectCalled == call.fn = "_detect_important_regions"
Regions == CallOut
RegionsOf(type) == SelectSeq(Regions, LAMBDA r : r.type = type)

\* C18, for regions of every kind: every region image detection returns, of whatever kind, is
\* wider than 50 and higher than 20; faces weigh 1.0 and text candidates 0.7.
C18_EveryRegionLarge ==
    DetectCalled =>
        \A i \in 1 .. Len(Regions) :
            /\ Regions[i].bbox.w > 50 /\ Regions[i].bbox.h > 20
            /\ Regions[i].type = "face" => Regions[i].importance = "1.0"
            /\ Regions[i].type = "text_candidate" => Regions[i].importance = "0.7"

\* C18, amended: the size filter applies to text candidates only.  Every face
\* the cascade returns is a region of weight 1.0 whatever its size; a contour
\* is a text_candidate region of weight 0.7 exactly when its box is wider than
\* 50 and higher than 20; so one face and one 10x10 contour give one region.
C18_TextRegionsLarge ==
    DetectCalled =>
        /\ \A i \in 1 .. Len(Regions) :
               /\ Regions[i].type \in {"face", "text_candidate"}
               /\ Regions[i].type = "face" => Regions[i].importance = "1.0"
               /\ Regions[i].type = "text_candidate" =>
                      /\ Regions[i].importance = "0.7"
                      /\ Regions[i].bbox.w > 50 /\ Regions[i].bbox.h > 20
        /\ [i \in 1 .. Len(RegionsOf("face")) |-> RegionsOf("face")[i].bbox]
               = CallArgs.faces
        /\ [i \in 1 .. Len(RegionsOf("text_candidate")) |->
                RegionsOf("text_candidate")[i].bbox]
               = SelectSeq(CallArgs.contours, LAMBDA b : b.w > 50 /\ b.h > 20)
        /\ (Len(CallArgs.faces) = 1 /\ CallArgs.contours = <<Box(10, 10)>>)
               => Len(Regions) = 1

\* a face of 10x10 and a contour of 10x10: the face is returned, the contour not
C18_Witness ==
    /\ DetectCalled
    /\ CallArgs.faces = <<Box(10, 10)>>
    /\ CallArgs.contours = <<Box(10, 10)>>
    /\ Len(Regions) = 1
    /\ Regions[1].type = "face"

\* C19: in the result of every successful compress_audio, neural_compression
\* is true exactly when the Encodec function produced the output and false
\* exactly when ffmpeg did; with no audio model loaded ffmpeg is used and the
\* flag is false.
C19_NeuralFlag ==
    (CallSucceeded /\ call.fn = "compress_audio") =>
        LET flag == Get(CallResult.ai_analysis).neural_compression
        IN  /\ flag <=> CallOut.backend = Some(NEURAL)
            /\ ~flag <=> CallOut.backend = Some(CLASSICAL)
            /\ ~audio_model => (CallOut.backend = Some(CLASSICAL) /\ ~flag)

\* the Encodec library is there but its model did not load: ffmpeg produced
\* the output and the flag is false
C19_Witness ==
    /\ CallSucceeded
    /\ call.fn = "compress_audio"
    /\ ENCODEC_AVAILABLE /\ ~audio_model
    /\ CallOut.backend = Some(CLASSICAL)
    /\ ~Get(CallResult.ai_analysis).neural_compression

VideoCalled == call.fn = "compress_video"

\* the same call of compress_video with another adaptive_mode, on a video in
\* which the detector would find other regions
OtherVideoCall(adaptive_mode, opened, frames) ==
    compress_video(Storage(CallArgs.input_path, CallArgs.input), CallArgs.input_path,
                   CallArgs.output_path, CallArgs.quality, adaptive_mode,
                   [CallArgs.env EXCEPT !.opened = opened, !.frames = frames])

\* C23: for every video and quality, compress_video gives the encoder the same
\* crf and the same audio bitrate of 128k whether adaptive_mode is true or
\* false and whatever regions are detected; the regions change nothing of the
\* output or the result but the important_regions count.
C23_AdaptiveChangesOnlyCount ==
    (VideoCalled /\ IsSet(CallOut.args)) =>
        /\ Get(CallOut.args).audio_bitrate = "128k"
        /\ \A am \in BOOLEAN, opened \in BOOLEAN, frames \in CallFrameLists :
               LET other == OtherVideoCall(am, opened, frames)
               IN  IsSet(other.args) =>
                       /\ Get(other.args).crf = CallCrf
                       /\ Get(other.args).audio_bitrate = "128k"
                       /\ other.files = CallOut.files
                       /\ Get(other.result).success = CallResult.success
                       /\ Get(other.result).compressed_size = CallResult.compressed_size
                       /\ Get(other.result).compression_ratio = CallResult.compression_ratio
                       /\ Get(other.result).error = CallResult.error

\* an adaptive call in which two regions were detected and reported
C23_Witness ==
    /\ VideoCalled
    /\ CallSucceeded
    /\ CallArgs.adaptive_mode
    /\ Get(CallResult.ai_analysis).important_regions = 2
    /\ Get(OtherVideoCall(FALSE, TRUE, <<>>).result).ai_analysis
           = Some([adaptive_mode |-> FALSE, important_regions |-> 0])

AnalyzeCalled == call.fn = "_analyze_video_regions"

\* how many frames of the video of the call can be decoded, and how many of
\* them the claim has sampled
Decodable == IF CallArgs.opened THEN Len(CallArgs.frames) ELSE 0
Sampled == IF Decodable < 10 THEN Decodable ELSE 10

\* the regions of the call's result tagged with frame f, without the tag
RegionsOfFrame(f) ==
    LET tagged == SelectSeq(CallOut, LAMBDA r : r.frame = f)
    IN  [i \in 1 .. Len(tagged) |->
            [type |-> tagged[i].type, bbox |-> tagged[i].bbox,
             importance |-> tagged[i].importance]]

\* the result is in frame order and names sampled frames only
InFrameOrder ==
    /\ \A i \in 1 .. Len(CallOut) : CallOut[i].frame \in 0 .. (Sampled - 1)
    /\ \A i \in 1 .. Len(CallOut), j \in 1 .. Len(CallOut) :
           i < j => CallOut[i].frame <= CallOut[j].frame

\* C24, with the image detector: video detection looks at the first
\* min(10, decodable frames) frames in order and returns, frame by frame, the
\* regions the image detector returns for the frame (faces and text
\* candidates), tagged with the frame index in 0..9.
C24_ImageDetectorPerFrame ==
    AnalyzeCalled =>
        /\ InFrameOrder
        /\ \A f \in 0 .. (Sampled - 1) :
               RegionsOfFrame(f) =
                   detect_important_regions(CallArgs.frames[f + 1].faces,
                                            CallArgs.frames[f + 1].contours)

\* C24, amended: video detection looks at the first min(10, decodable frames)
\* frames in order and returns, frame by frame, one face region of weight 1.0
\* for every face the face cascade finds in the frame, tagged with the frame
\* index in 0..9; it looks for no text candidates.
C24_FacesPerFrame ==
    AnalyzeCalled =>
        /\ InFrameOrder
        /\ \A f \in 0 .. (Sampled - 1) :
               RegionsOfFrame(f) =
                   [i \in 1 .. Len(CallArgs.frames[f + 1].faces) |->
                       [type |-> "face", bbox |-> CallArgs.frames[f + 1].faces[i],
                        importance |-> "1.0"]]

\* a video of eleven frames with faces and a contour in each: the faces of the
\* first ten are returned, two a frame, and nothing else
C24_Witness ==
    /\ AnalyzeCalled
    /\ CallArgs.opened
    /\ Len(CallArgs.frames) = 11
    /\ \A i \in 1 .. 11 : Len(CallArgs.frames[i].faces) = 2
                            /\ Len(CallArgs.frames[i].contours) = 1
    /\ Len(CallOut) = 20
    /\ CallOut[20].frame = 9

\* the call is an adaptive one that got to its detection step
DetectionStep ==
    /\ call.fn \in {"compress_image", "compress_video"}
    /\ CallArgs.adaptive_mode
    /\ IsSet(CallArgs.input)
    /\ call.fn = "compress_image" => CallArgs.env.fail # "load"

\* C25: when detection cannot do its work in an adaptive image or video call,
\* because the face detector fails or because the video cannot be opened for
\* sampling, the call reports an error: it does not go on to return success
\* with the region set empty.
C25_DetectionFailureReported ==
    (DetectionStep
        /\ (CallArgs.env.fail = "detection"
               \/ (call.fn = "compress_video" /\ ~CallArgs.env.opened)))
    => (CallReturned /\ ~CallResult.success /\ IsSet(CallResult.error))

AudioCalled == call.fn = "compress_audio"

\* C27: on the ffmpeg path of compress_audio, whatever the name of the source
\* file, the file ffmpeg is told to write is not the source file, and the
\* source file is after the call what it was before.
C27_EncoderOutputIsNotSource ==
    (AudioCalled /\ CallOut.backend = Some(CLASSICAL) /\ IsSet(CallOut.args)) =>
        /\ Get(CallOut.args).output # CallArgs.input_path
        /\ Exists(CallOut.files, CallArgs.input_path)
        /\ CallOut.files[CallArgs.input_path] = Get(CallArgs.input)

====
